---- MODULE Spec2Model ----
(***************************************************************************)
(* Model of src/src/Algorithm/ErrorCorrectProcess.cpp: the read            *)
(* error-correction core (k-mer corrector, legacy overlap corrector,       *)
(* index-driven overlap corrector, hybrid dispatch) and its post-processor.*)
(*                                                                         *)
(* Sequences are TLA+ sequences of one-letter strings.  The source indexes *)
(* strings from 0; the model keeps the source's 0-based indices in its     *)
(* variables and adds 1 where it reads a TLA+ sequence.                    *)
(***************************************************************************)
EXTENDS Integers, Sequences, FiniteSets, TLC

(***************************************************************************)
(* Bounds of the model.                                                    *)
(***************************************************************************)
\* number of k-mer occurrences the indexed collection holds at most
IndexSize == 3
\* largest configured m_params.numKmerRounds
MaxKmerRounds == 1
\* largest configured m_params.numOverlapRounds
MaxOverlapRounds == 2
\* number of iterations of the legacy overlap loop that are explored
RoundCap == 3
\* number of reads handed to the post-processor
MaxReads == 3

\* m_params.depthFilter, set by the constructor
DepthFilter == 10000

\* DNA_ALPHABET::size and ALPHABET[j]
DNA_ALPHABET_size == 4
ALPHABET == <<"A", "C", "G", "T">>

\* the bases the reads handed to the corrector are made of
ReadBases == {"A", "C"}
\* the bases the indexed collection is made of
IndexBases == {"A", "C", "G"}
\* the phred scores of the bases of a read
PhredValues == {10, 30}

\* the configured values of m_params.kmerLength
KmerLengths == {2}

\* the configured values of m_params.minOverlap and of m_params.minIdentity,
\* the latter in percent
MinOverlaps == {1, 2}
MinIdentities == {50, 100}

Algorithms == {"ECA_HYBRID", "ECA_KMER", "ECA_OVERLAP"}

\* all sequences over S of length n
RECURSIVE SeqsOfLen(_, _)
SeqsOfLen(S, n) ==
    IF n = 0 THEN {<<>>}
    ELSE {Append(s, x) : s \in SeqsOfLen(S, n - 1), x \in S}

\* the lengths of the reads handed to the corrector
ReadLengths == 1..3

ReadSeqs == UNION {SeqsOfLen(ReadBases, n) : n \in ReadLengths}

Min(a, b) == IF a < b THEN a ELSE b
Max(a, b) == IF a > b THEN a ELSE b

\* std::string::substr(pos, len), pos counted from 0
substr(s, pos, len) == SubSeq(s, pos + 1, pos + len)

\* f extended by g on the arguments f does not have
Extend(f, g) ==
    [x \in DOMAIN f \cup DOMAIN g |-> IF x \in DOMAIN f THEN f[x] ELSE g[x]]

EmptyMap == [x \in {} |-> 0]

VARIABLES
    m_params,       \* algorithm, kmerLength, numKmerRounds, numOverlapRounds
    workItem,       \* the read being corrected: seq, qual
    pc,             \* position of the correction call
    result,         \* ErrorCorrectResult under construction / returned
    bwtCount,       \* the FM-index counts observed so far (k-mer -> count)
    readSequence,   \* kmerCorrection: working copy of the read
    kmerCache,      \* kmerCorrection: KmerCountMap
    countVector,    \* kmerCorrection: counts of the k-mers of this round
    solidVector,    \* kmerCorrection: solid flag per base of this round
    allSolid,       \* kmerCorrection
    done,           \* kmerCorrection / overlapCorrection
    rounds,         \* kmerCorrection / overlapCorrection
    i,              \* kmerCorrection: index of the scan over the bases
    corrected,      \* kmerCorrection
    lastAttempt,    \* arguments and return of the last attemptKmerCorrection
    currRead,       \* overlapCorrection: currRead.seq
    bQCPass,        \* overlapCorrection
    sumOverlaps,    \* overlapCorrection: sum of the block sizes of the round
    overlapLog,     \* sequences handed to pOverlapper->overlapRead
    attempted,      \* kmerCorrection: the attempts of this round that failed
    kmerReturn,     \* correct: the result kmerCorrection returned (line 46)
    run,            \* 1: the read is corrected, 2: its correction is corrected
    firstRun,       \* the read and the result of run 1
    m_pCorrectedWriter, \* ErrorCorrectPostProcess: records written to it
    m_pDiscardWriter,   \* NULL, or the records written to it
    m_bCollectMetrics,
    m_totalBases,
    m_totalErrors,
    m_readsKept,
    m_readsDiscarded,
    m_kmerQCPassed,
    m_overlapQCPassed,
    m_qcFail,
    processed,      \* the results handed to ErrorCorrectPostProcess::process
    pBWT,           \* m_params.pBWT: the transform of the read collection
    pSSA,           \* m_params.pSSA: lexicographic rank -> read id
    current_sequence,   \* overlapCorrectionNew
    consensus,          \* overlapCorrectionNew
    round,              \* overlapCorrectionNew
    prematchMap,        \* overlapCorrectionNew: key -> position, visited
    iterated,           \* the keys the loop of line 238 has passed
    matches,            \* overlapCorrectionNew: KmerMatchSet
    multiple_alignment, \* overlapCorrectionNew: the rows of the round
    roundLog,           \* base sequence, matches and rows of each round
    substitutions       \* kmerCorrection: the corrections made, in order

vars == <<m_params, workItem, pc, result, bwtCount, readSequence,
          kmerCache, countVector, solidVector, allSolid, done, rounds, i,
          corrected, lastAttempt, currRead, bQCPass, sumOverlaps, overlapLog,
          attempted, kmerReturn, run, firstRun, m_pCorrectedWriter,
          m_pDiscardWriter, m_bCollectMetrics, m_totalBases, m_totalErrors,
          m_readsKept, m_readsDiscarded, m_kmerQCPassed, m_overlapQCPassed,
          m_qcFail, processed, pBWT, pSSA, current_sequence, consensus,
          round, prematchMap, iterated, matches, multiple_alignment,
          roundLog, substitutions>>

kmerVars == <<readSequence, kmerCache, countVector, solidVector, allSolid,
              i, corrected, lastAttempt, attempted, substitutions>>
overlapVars == <<currRead, bQCPass, sumOverlaps, overlapLog>>
inputVars == <<m_params, workItem>>
indexVars == <<pBWT, pSSA>>
newVars == <<current_sequence, consensus, round, prematchMap, iterated,
             matches, multiple_alignment, roundLog>>
postVars == <<m_pCorrectedWriter, m_pDiscardWriter, m_bCollectMetrics,
              m_totalBases, m_totalErrors, m_readsKept, m_readsDiscarded,
              m_kmerQCPassed, m_overlapQCPassed, m_qcFail, processed>>

\* ErrorCorrectResult(): the flags and counters of a fresh result
NewResult ==
    [correctSequence |-> <<>>, kmerQC |-> FALSE, overlapQC |-> FALSE,
     num_prefix_overlaps |-> 0, num_suffix_overlaps |-> 0]

NoAttempt == [called |-> FALSE]

\* correct has not called kmerCorrection yet
NoReturn == [returned |-> FALSE]

NoRun == [seq |-> <<>>, result |-> NewResult]

\* m_pDiscardWriter when no discard file is given (NULL, line 553), and a
\* discard writer nothing has been written to
NoWriter == [isNull |-> TRUE, records |-> <<>>]
NewWriter == [isNull |-> FALSE, records |-> <<>>]

\* CorrectionThresholds::Instance().getRequiredSupport(phred)
getRequiredSupport(phred) == IF phred >= 20 THEN 1 ELSE 2

\* SeqRecord::getPhredScore(j)
getPhredScore(j) == workItem.qual[j + 1]

(***************************************************************************)
(* The inputs: the reads and the parameters                                *)
(***************************************************************************)
\* the work items of the k-mer and legacy correctors, which do not read idx
WorkItems ==
    UNION {[seq : {s}, qual : [1..Len(s) -> PhredValues], idx : {0}] :
              s \in ReadSeqs}

\* the ids of the reads handed to the index-driven corrector
ReadIds == {0, 1}

\* the work items of the index-driven corrector, which does not read qual
NewWorkItems ==
    UNION {[seq : {s}, qual : {[p \in 1..Len(s) |-> 30]}, idx : ReadIds] :
              s \in ReadSeqs}

\* a parameter the configured algorithm does not read is left at 0
Params ==
    {p \in [algorithm : Algorithms, kmerLength : KmerLengths,
            numKmerRounds : 0..MaxKmerRounds,
            numOverlapRounds : 0..MaxOverlapRounds,
            minOverlap : {0} \cup MinOverlaps,
            minIdentity : {0} \cup MinIdentities] :
        /\ p.algorithm = "ECA_KMER" => p.numOverlapRounds = 0
        /\ p.algorithm = "ECA_OVERLAP" => p.numKmerRounds = 0
        /\ p.algorithm = "ECA_OVERLAP" => /\ p.minOverlap \in MinOverlaps
                                          /\ p.minIdentity \in MinIdentities
        /\ p.algorithm # "ECA_OVERLAP" => /\ p.minOverlap = 0
                                          /\ p.minIdentity = 0}

(***************************************************************************)
(* The FM-index.  Its counts are fixed for the run; the model fixes the    *)
(* count of a k-mer at the first query of it and keeps it in bwtCount, so  *)
(* that every later query of the same k-mer gets the same answer.          *)
(***************************************************************************)
\* the sum of the counts of a count table
RECURSIVE Total(_)
Total(f) ==
    IF DOMAIN f = {} THEN 0
    ELSE LET x == CHOOSE y \in DOMAIN f : TRUE
         IN  f[x] + Total([y \in DOMAIN f \ {x} |-> f[y]])

\* can the indexed collection hold the k-mer
Indexable(kmer) == \A p \in DOMAIN kmer : kmer[p] \in IndexBases

\* the count tables that answer the queries `kmers` and agree with bwtCount
Observations(kmers) ==
    LET seen == Total(bwtCount)
        new == kmers \ DOMAIN bwtCount
    IN  {Extend(bwtCount, f) :
            f \in {g \in [new -> 0..(IndexSize - seen)] :
                      /\ Total(g) <= IndexSize - seen
                      /\ \A k \in new : ~Indexable(k) => g[k] = 0}}

(***************************************************************************)
(* ErrorCorrectProcess::attemptKmerCorrection                              *)
(***************************************************************************)
\* the k-mer at k_idx with its base base_idx set to currBase
altKmer(seq, k_idx, base_idx, currBase) ==
    [substr(seq, k_idx, m_params.kmerLength) EXCEPT ![base_idx + 1] = currBase]

\* the k-mers the loop over the alphabet counts
altKmers(seq, idx, k_idx) ==
    {altKmer(seq, k_idx, idx - k_idx, ALPHABET[j]) :
        j \in {x \in 1..DNA_ALPHABET_size : ALPHABET[x] # seq[idx + 1]}}

\* the loop over the alphabet, from j on; best = bestCount, bestBase
RECURSIVE attemptLoop(_, _, _, _, _, _, _)
attemptLoop(j, best, seq, idx, k_idx, minCount, cnt) ==
    IF j >= DNA_ALPHABET_size THEN [multiple |-> FALSE, best |-> best]
    ELSE
        LET currBase == ALPHABET[j + 1]
            count == cnt[altKmer(seq, k_idx, idx - k_idx, currBase)]
        IN  IF currBase = seq[idx + 1]
            THEN attemptLoop(j + 1, best, seq, idx, k_idx, minCount, cnt)
            ELSE IF count > best.count /\ count >= minCount
            THEN IF best.base # "$"
                 THEN [multiple |-> TRUE, best |-> best]
                 ELSE attemptLoop(j + 1, [count |-> count, base |-> currBase],
                                  seq, idx, k_idx, minCount, cnt)
            ELSE attemptLoop(j + 1, best, seq, idx, k_idx, minCount, cnt)

\* returns the value returned and the sequence left in readSequence
attemptKmerCorrection(idx, k_idx, minCount, seq, cnt) ==
    LET r == attemptLoop(0, [count |-> 0, base |-> "$"], seq, idx, k_idx,
                         minCount, cnt)
    IN  IF r.multiple THEN [ret |-> FALSE, seq |-> seq]
        ELSE IF r.best.count >= minCount
        THEN [ret |-> TRUE, seq |-> [seq EXCEPT ![idx + 1] = r.best.base]]
        ELSE [ret |-> FALSE, seq |-> seq]

(***************************************************************************)
(* ErrorCorrectProcess::kmerCorrection                                     *)
(***************************************************************************)
\* minPhredVector[idx]: the minimum phred score of the bases of k-mer idx
minPhredVector(idx) ==
    LET ps == {getPhredScore(j) : j \in idx..(idx + m_params.kmerLength - 1)}
    IN  CHOOSE m \in ps : \A p \in ps : m <= p

\* the k-mers of seq
kmersOf(seq) ==
    {substr(seq, x, m_params.kmerLength) :
        x \in 0..(Len(seq) - m_params.kmerLength)}

\* the cache after the k-mers of seq were looked up: a k-mer that is not in
\* the cache is counted by the FM-index (cnt) and inserted
cacheAfter(cache, seq, cnt) ==
    Extend(cache, [k \in kmersOf(seq) \ DOMAIN cache |-> cnt[k]])

\* countVector of a round, read through the cache
countsOf(seq, cache) ==
    [x \in 0..(Len(seq) - m_params.kmerLength) |->
        cache[substr(seq, x, m_params.kmerLength)]]

\* mutant of isSolidKmer: the phred score of the last base of the k-mer
isSolidKmerLastBase(x, count) ==
    count >= getRequiredSupport(getPhredScore(x + m_params.kmerLength - 1))

\* lines 421-427: is the k-mer x with this count solid
isSolidKmer(x, count) == count >= getRequiredSupport(minPhredVector(x))

\* solidVector of a round
solidOf(seq, counts) ==
    [j \in 0..(Len(seq) - 1) |->
        IF \E x \in DOMAIN counts :
              /\ x <= j /\ j < x + m_params.kmerLength
              /\ isSolidKmer(x, counts[x])
        THEN 1 ELSE 0]

\* mutant of stopCorrection: the loop runs one round more
stopCorrectionLate(all, r, maxAttempts) == all \/ r > maxAttempts + 1

\* line 452: the test that ends the loop; rounds is the value before rounds++
stopCorrection(all, r, maxAttempts) == all \/ r > maxAttempts

\* mutant of nextNonSolid: the scan ends after the leftmost base
nextNonSolidLeftmostOnly(solid, from, n) ==
    IF from = 0 /\ \E j \in 0..(n - 1) : solid[j] # 1
    THEN CHOOSE j \in 0..(n - 1) :
            /\ solid[j] # 1
            /\ \A x \in 0..(j - 1) : solid[x] = 1
    ELSE n

\* lines 457-459: the first base at or after from that is not solid, or n
nextNonSolid(solid, from, n) ==
    IF \E j \in from..(n - 1) : solid[j] # 1
    THEN CHOOSE j \in from..(n - 1) :
            /\ solid[j] # 1
            /\ \A x \in from..(j - 1) : solid[x] = 1
    ELSE n

\* line 465
leftKmerIndex(idx) ==
    IF idx + 1 >= m_params.kmerLength THEN idx + 1 - m_params.kmerLength ELSE 0

\* line 471
rightKmerIndex(idx, n) == Min(idx, n - m_params.kmerLength)

\* mutant of kmerResult: the working copy is returned when QC fails
kmerResultKeepsWorkingCopy(all, seq, original) ==
    IF all
    THEN [NewResult EXCEPT !.correctSequence = seq, !.kmerQC = TRUE]
    ELSE [NewResult EXCEPT !.correctSequence = seq, !.kmerQC = FALSE]

\* lines 486-495: the sequence and the verdict kmerCorrection returns
kmerResult(all, seq, original) ==
    IF all
    THEN [NewResult EXCEPT !.correctSequence = seq, !.kmerQC = TRUE]
    ELSE [NewResult EXCEPT !.correctSequence = original, !.kmerQC = FALSE]

\* lines 351-394: the entry of kmerCorrection up to the loop
KmerEntry ==
    /\ pc = "kmer_entry"
    /\ readSequence' = workItem.seq
    /\ kmerCache' = EmptyMap
    /\ allSolid' = FALSE
    /\ done' = FALSE
    /\ rounds' = 0
    /\ countVector' = <<>>
    /\ solidVector' = <<>>
    /\ i' = 0
    /\ corrected' = FALSE
    /\ lastAttempt' = NoAttempt
    /\ attempted' = {}
    /\ substitutions' = <<>>
    /\ IF Len(workItem.seq) < m_params.kmerLength
       THEN /\ result' = [NewResult EXCEPT !.correctSequence = workItem.seq,
                                           !.kmerQC = FALSE]
            /\ pc' = "kmer_return"
       ELSE /\ result' = NewResult
            /\ pc' = "kmer_loop"
    /\ UNCHANGED <<postVars, indexVars, newVars, inputVars, bwtCount,
                   overlapVars, kmerReturn, run, firstRun>>

\* lines 396-459: the head of a round: the counts, the solid bases, the exit
\* of the loop, and the scan up to the leftmost base that is not solid
KmerRound ==
    /\ pc = "kmer_loop"
    /\ ~done
    /\ \E cnt \in Observations(kmersOf(readSequence) \ DOMAIN kmerCache) :
        LET cache == cacheAfter(kmerCache, readSequence, cnt)
            counts == countsOf(readSequence, cache)
            solid == solidOf(readSequence, counts)
            all == \A j \in DOMAIN solid : solid[j] = 1
        IN  /\ bwtCount' = cnt
            /\ kmerCache' = cache
            /\ countVector' = counts
            /\ solidVector' = solid
            /\ allSolid' = all
            /\ rounds' = IF all THEN rounds ELSE rounds + 1
            /\ IF stopCorrection(all, rounds, m_params.numKmerRounds)
               THEN pc' = "kmer_finish" /\ UNCHANGED <<i, corrected>>
               ELSE /\ pc' = "kmer_left"
                    /\ i' = nextNonSolid(solid, 0, Len(readSequence))
                    /\ corrected' = FALSE
    /\ lastAttempt' = NoAttempt
    /\ attempted' = {}
    /\ UNCHANGED <<postVars, indexVars, newVars, inputVars, result,
                   readSequence, done, overlapVars, kmerReturn, run, firstRun,
                   substitutions>>

\* one call of attemptKmerCorrection for base i with the k-mer at k_idx
AttemptAt(k_idx, side) ==
    LET threshold == getRequiredSupport(getPhredScore(i))
        minCount == Max(countVector[k_idx], threshold)
    IN  \E cnt \in Observations(altKmers(readSequence, i, k_idx)) :
        LET r == attemptKmerCorrection(i, k_idx, minCount, readSequence, cnt)
        IN  /\ bwtCount' = cnt
            /\ readSequence' = r.seq
            /\ corrected' = r.ret
            /\ lastAttempt' = [called |-> TRUE, side |-> side, i |-> i,
                               k_idx |-> k_idx, minCount |-> minCount,
                               before |-> readSequence, ret |-> r.ret]
            /\ attempted' = IF r.ret THEN attempted
                            ELSE attempted \cup {<<i, side>>}
            /\ substitutions' =
                  IF r.ret
                  THEN Append(substitutions,
                              [round |-> rounds, i |-> i,
                               before |-> readSequence, after |-> r.seq])
                  ELSE substitutions

\* lines 461-468: the attempt with the leftmost covering k-mer
KmerAttemptLeft ==
    /\ pc = "kmer_left"
    /\ AttemptAt(leftKmerIndex(i), "left")
    /\ pc' = IF corrected' THEN "kmer_loop" ELSE "kmer_right"
    /\ UNCHANGED <<postVars, indexVars, newVars, inputVars, result, kmerCache,
                   countVector, solidVector, allSolid, done, rounds, i,
                   overlapVars, kmerReturn, run, firstRun>>

\* lines 470-483: the attempt with the rightmost covering k-mer; when it
\* fails the scan goes on to the next base that is not solid, and when there
\* is none the correction stops (done)
KmerAttemptRight ==
    /\ pc = "kmer_right"
    /\ AttemptAt(rightKmerIndex(i, Len(readSequence)), "right")
    /\ LET next == nextNonSolid(solidVector, i + 1, Len(readSequence))
       IN  IF corrected'
           THEN pc' = "kmer_loop" /\ UNCHANGED <<i, done>>
           ELSE IF next < Len(readSequence)
           THEN pc' = "kmer_left" /\ i' = next /\ UNCHANGED done
           ELSE pc' = "kmer_finish" /\ i' = next /\ done' = TRUE
    /\ UNCHANGED <<postVars, indexVars, newVars, inputVars, result, kmerCache,
                   countVector, solidVector, allSolid, rounds, overlapVars,
                   kmerReturn, run, firstRun>>

\* lines 486-496: the result of kmerCorrection
KmerFinish ==
    /\ pc = "kmer_finish"
    /\ result' = kmerResult(allSolid, readSequence, workItem.seq)
    /\ pc' = "kmer_return"
    /\ UNCHANGED <<postVars, indexVars, newVars, inputVars, bwtCount, kmerVars,
                   done, rounds, overlapVars, kmerReturn, run, firstRun>>

(***************************************************************************)
(* ErrorCorrectProcess::overlapCorrection (the legacy overlap corrector)   *)
(***************************************************************************)
\* sums of the block sizes the overlapper can report for a read
SumOverlapValues == {1, DepthFilter, DepthFilter + 1}

\* prefix and suffix counts MultiOverlap::countOverlaps can report
OverlapCountValues == {<<1, 0>>, <<0, 1>>}

\* seq with the base at position p (from 1) set to b
SetBase(seq, p, b) == [seq EXCEPT ![p] = b]

\* results of MultiOverlap::consensusConflict for the root sequence seq:
\* the root itself, or the root with one base replaced
ConsensusValues(seq) ==
    {seq} \cup {SetBase(seq, p, b) : p \in 1..Len(seq), b \in ReadBases}

\* line 99: does the depth filter fire
depthFiltered(sum) == DepthFilter > 0 /\ sum > DepthFilter

\* mutant of depthFilterResult: the sequence is not assigned
depthFilterResultKeepsSequence(res, sum, curr) ==
    [res EXCEPT !.num_prefix_overlaps = sum, !.num_suffix_overlaps = sum,
                !.overlapQC = TRUE]

\* lines 101-104: the result the depth filter leaves
depthFilterResult(res, sum, curr) ==
    [res EXCEPT !.num_prefix_overlaps = sum, !.num_suffix_overlaps = sum,
                !.correctSequence = curr, !.overlapQC = TRUE]

\* line 122: the test that ends the rounds; r is the value after ++rounds
roundsOver(r, numOverlapRounds, cons, curr) ==
    r = numOverlapRounds \/ cons = curr

\* line 136: the verdict overlapCorrection returns
overlapVerdict(res, qcPass) == [res EXCEPT !.overlapQC = qcPass]

\* lines 75-83: the entry of overlapCorrection up to the loop
OverlapEntry ==
    /\ pc = "ovl_entry"
    /\ done' = FALSE
    /\ rounds' = 0
    /\ result' = NewResult
    /\ currRead' = workItem.seq
    /\ bQCPass' = FALSE
    /\ sumOverlaps' = 0
    /\ overlapLog' = <<>>
    /\ pc' = "ovl_loop"
    /\ UNCHANGED <<postVars, indexVars, newVars, inputVars, bwtCount, kmerVars,
                   kmerReturn, run, firstRun>>

\* lines 108-133: the consensus of the round and the end of the round
OverlapConsensus(prefix, suffix, cons, qc) ==
    /\ result' = [result EXCEPT !.num_prefix_overlaps = prefix,
                                !.num_suffix_overlaps = suffix,
                                !.correctSequence = cons]
    /\ rounds' = rounds + 1
    /\ IF roundsOver(rounds + 1, m_params.numOverlapRounds, cons, currRead)
       THEN /\ bQCPass' = qc
            /\ done' = TRUE
            /\ pc' = "ovl_finish"
            /\ UNCHANGED currRead
       ELSE /\ currRead' = cons
            /\ pc' = "ovl_loop"
            /\ UNCHANGED <<bQCPass, done>>

\* lines 85-134: one iteration of the loop of overlapCorrection
OverlapRound ==
    /\ pc = "ovl_loop"
    /\ ~done
    /\ rounds < RoundCap
    /\ overlapLog' = Append(overlapLog, currRead)
    /\ \E sum \in SumOverlapValues :
        /\ sumOverlaps' = sum
        /\ IF depthFiltered(sum)
           THEN /\ result' = depthFilterResult(result, sum, currRead)
                /\ pc' = "ovl_finish"
                /\ UNCHANGED <<done, rounds, currRead, bQCPass>>
           ELSE \E counts \in OverlapCountValues,
                   cons \in ConsensusValues(currRead), qc \in BOOLEAN :
                   OverlapConsensus(counts[1], counts[2], cons, qc)
    /\ UNCHANGED <<postVars, indexVars, newVars, inputVars, bwtCount, kmerVars,
                   kmerReturn, run, firstRun>>

\* lines 136-149: the loop has ended; the result is returned
OverlapFinish ==
    /\ pc = "ovl_finish"
    /\ result' = overlapVerdict(result, bQCPass)
    /\ pc' = "return"
    /\ UNCHANGED <<postVars, indexVars, newVars, inputVars, bwtCount, kmerVars,
                   done, rounds, overlapVars, kmerReturn, run, firstRun>>

(***************************************************************************)
(* The FM-index of the read collection, as overlapCorrectionNew reads it:  *)
(* m_params.pBWT is the Burrows-Wheeler transform of the reads, each ended *)
(* by the sentinel "$", and m_params.pSSA resolves the lexicographic rank  *)
(* of a read to its id.  Rows and read ids are counted from 0.             *)
(***************************************************************************)
\* the reads the indexed collections are made of
IndexReads == {<<"A", "C">>, <<"A", "C", "A">>, <<"A", "A", "C">>,
               <<"G", "T">>}

\* the indexed read collections
Collections == SeqsOfLen(IndexReads, 1) \cup SeqsOfLen(IndexReads, 2)

\* the order of the symbols of the transform
symbolRank(b) ==
    CASE b = "$" -> 0
      [] b = "A" -> 1
      [] b = "C" -> 2
      [] b = "G" -> 3
      [] b = "T" -> 4

\* the suffixes of the collection: <<read id, offset>>, the sentinel alone
\* at offset Len
Suffixes(reads) ==
    UNION {{<<id, off>> : off \in 0..Len(reads[id + 1])} :
              id \in 0..(Len(reads) - 1)}

\* a suffix as the sequence it is sorted by: its symbols, the sentinel, and
\* the read id that orders equal suffixes
suffixKey(reads, s) ==
    LET r == reads[s[1] + 1]
        n == Len(r) - s[2]
    IN  [p \in 1..(n + 2) |->
            IF p <= n THEN symbolRank(r[s[2] + p])
            ELSE IF p = n + 1 THEN 0 ELSE s[1]]

RECURSIVE keyLess(_, _, _)
keyLess(a, b, p) ==
    IF p > Len(a) THEN p <= Len(b)
    ELSE IF p > Len(b) THEN FALSE
    ELSE IF a[p] # b[p] THEN a[p] < b[p]
    ELSE keyLess(a, b, p + 1)

\* the row of a suffix in the sorted suffix list
suffixRank(reads, s) ==
    Cardinality({t \in Suffixes(reads) :
                    keyLess(suffixKey(reads, t), suffixKey(reads, s), 1)})

\* the transform: the symbol before each suffix, "$" before a whole read
BuildBWT(reads) ==
    LET S == Suffixes(reads)
        at(r) == CHOOSE s \in S : suffixRank(reads, s) = r
    IN  [r \in 1..Cardinality(S) |->
            LET s == at(r - 1)
            IN  IF s[2] = 0 THEN "$" ELSE reads[s[1] + 1][s[2]]]

\* the lexicographic index: the read ids in the order of the whole reads
BuildSSA(reads) ==
    LET W == {s \in Suffixes(reads) : s[2] = 0}
        lexoRank(s) ==
            Cardinality({t \in W : suffixRank(reads, t) < suffixRank(reads, s)})
    IN  [k \in 1..Len(reads) |->
            (CHOOSE s \in W : lexoRank(s) = k - 1)[1]]

\* the indexes of the collections
Indexes ==
    {[pBWT |-> BuildBWT(reads), pSSA |-> BuildSSA(reads)] :
        reads \in Collections}

\* BWT::getChar(idx)
getChar(bwt, idx) == bwt[idx + 1]

\* BWT::getPC(b): the number of symbols of the transform smaller than b
getPC(bwt, b) ==
    Cardinality({r \in DOMAIN bwt : symbolRank(bwt[r]) < symbolRank(b)})

\* BWT::getOcc(b, idx): the number of b in rows 0..idx
getOcc(bwt, b, idx) ==
    Cardinality({r \in DOMAIN bwt : r <= idx + 1 /\ bwt[r] = b})

\* the backward step of lines 251-252
LF(bwt, idx) ==
    LET b == getChar(bwt, idx)
    IN  getPC(bwt, b) + getOcc(bwt, b, idx - 1)

\* SampledSuffixArray::lookupLexoRank(rank)
lookupLexoRank(ssa, rank) == ssa[rank + 1]

\* BWTAlgorithms::findIntervalWithCache: the rows whose suffix starts with
\* w, by backward search from the last symbol of w
RECURSIVE updateInterval(_, _, _, _)
updateInterval(bwt, interval, w, p) ==
    IF p = 0 THEN interval
    ELSE LET b == w[p]
         IN  updateInterval(bwt,
                 [lower |-> getPC(bwt, b) + getOcc(bwt, b, interval.lower - 1),
                  upper |-> getPC(bwt, b) + getOcc(bwt, b, interval.upper) - 1],
                 w, p - 1)

findInterval(bwt, w) ==
    LET b == w[Len(w)]
    IN  updateInterval(bwt,
            [lower |-> getPC(bwt, b),
             upper |-> getPC(bwt, b) + getOcc(bwt, b, Len(bwt) - 1) - 1],
            w, Len(w) - 1)

\* BWTInterval::isValid and BWTInterval::size
isValid(interval) == interval.upper >= interval.lower
size(interval) == interval.upper - interval.lower + 1

\* BWTAlgorithms::extractString(pBWT, id): the read that ends at row id,
\* spelled backwards from its last symbol to its sentinel
RECURSIVE extractFrom(_, _, _)
extractFrom(bwt, idx, acc) ==
    LET b == getChar(bwt, idx)
    IN  IF b = "$" THEN acc
        ELSE extractFrom(bwt, LF(bwt, idx), <<b>> \o acc)

extractString(bwt, id) == extractFrom(bwt, id, <<>>)

\* reverseComplement
complement(b) ==
    CASE b = "A" -> "T"
      [] b = "C" -> "G"
      [] b = "G" -> "C"
      [] b = "T" -> "A"

reverseComplement(s) ==
    [p \in 1..Len(s) |-> complement(s[Len(s) + 1 - p])]

(***************************************************************************)
(* ErrorCorrectProcess::overlapCorrectionNew (the index-driven overlap     *)
(* corrector)                                                              *)
(***************************************************************************)
\* line 191
max_interval_size == 500

\* line 208; the reads of the model are not shorter than kmerLength - 1
num_kmers(seq) == Len(seq) - m_params.kmerLength + 1

\* the rows of an interval that line 213 / line 224 accepts
acceptedRows(interval) ==
    IF isValid(interval) /\ size(interval) < max_interval_size
    THEN interval.lower..interval.upper
    ELSE {}

\* lines 209-232: the keys k-mer i of seq inserts into prematchMap; the key
\* of a KmerMatch is its index and its strand (operator==, line 170)
sweepKeys(bwt, seq, x) ==
    LET kmer == substr(seq, x, m_params.kmerLength)
    IN  {[index |-> j, is_reverse |-> FALSE] :
            j \in acceptedRows(findInterval(bwt, kmer))}
        \cup
        {[index |-> j, is_reverse |-> TRUE] :
            j \in acceptedRows(findInterval(bwt, reverseComplement(kmer)))}

\* lines 207-232: prematchMap after the sweep; insert keeps the entry of the
\* first k-mer that reached a key, and no entry is visited
sweep(bwt, seq) ==
    LET n == num_kmers(seq)
        K == UNION {sweepKeys(bwt, seq, x) : x \in 0..(n - 1)}
    IN  [key \in K |->
            [position |-> CHOOSE x \in 0..(n - 1) :
                              /\ key \in sweepKeys(bwt, seq, x)
                              /\ \A y \in 0..(x - 1) :
                                    key \notin sweepKeys(bwt, seq, y),
             visited |-> FALSE]]

\* std::set<KmerMatch>::insert: a match of the same index and strand stays
insertMatch(S, match) ==
    IF \E x \in S : x.index = match.index /\ x.is_reverse = match.is_reverse
    THEN S
    ELSE S \cup {match}

\* mutant of backtrack: the walk stops at every entry of prematchMap it
\* reaches, visited or not, and marks it
RECURSIVE backtrackStopsAtPresent(_, _, _, _)
backtrackStopsAtPresent(bwt, ssa, map, out_match) ==
    LET b == getChar(bwt, out_match.index)
        stepped == [out_match EXCEPT !.index = LF(bwt, out_match.index)]
        key == [index |-> stepped.index, is_reverse |-> stepped.is_reverse]
    IN  IF key \in DOMAIN map
        THEN [map |-> [map EXCEPT ![key].visited = TRUE], found |-> {}]
        ELSE IF b = "$"
        THEN [map |-> map,
              found |-> {[stepped EXCEPT
                            !.index = lookupLexoRank(ssa, stepped.index)]}]
        ELSE backtrackStopsAtPresent(bwt, ssa, map, stepped)

\* lines 248-272 without the test of the visited flag (lines 255-263): the
\* walk from out_match to the "$" of its read, as calcSA does
RECURSIVE backtrackToSentinel(_, _, _)
backtrackToSentinel(bwt, ssa, out_match) ==
    LET b == getChar(bwt, out_match.index)
        stepped == [out_match EXCEPT !.index = LF(bwt, out_match.index)]
    IN  IF b = "$"
        THEN [stepped EXCEPT !.index = lookupLexoRank(ssa, stepped.index)]
        ELSE backtrackToSentinel(bwt, ssa, stepped)

\* lines 248-272: the walk from out_match back to the start of its read;
\* map is prematchMap and found the matches the walk inserts
RECURSIVE backtrack(_, _, _, _)
backtrack(bwt, ssa, map, out_match) ==
    LET b == getChar(bwt, out_match.index)
        stepped == [out_match EXCEPT !.index = LF(bwt, out_match.index)]
        key == [index |-> stepped.index, is_reverse |-> stepped.is_reverse]
        present == key \in DOMAIN map
    IN  IF present /\ map[key].visited
        THEN [map |-> map, found |-> {}]
        ELSE LET marked == IF present
                           THEN [map EXCEPT ![key].visited = TRUE]
                           ELSE map
             IN  IF b = "$"
                 THEN [map |-> marked,
                       found |-> {[stepped EXCEPT
                                     !.index = lookupLexoRank(ssa, stepped.index)]}]
                 ELSE backtrack(bwt, ssa, marked, stepped)

\* std::string::find(w, from): the first position >= from at which w
\* starts, -1 for npos
find(s, w, from) ==
    LET P == {p \in from..(Len(s) - Len(w)) : substr(s, p, Len(w)) = w}
    IN  IF P = {} THEN -1 ELSE CHOOSE p \in P : \A q \in P : p <= q

\* lines 305-306: does the k-mer occur a second time in one of the two
secondOccurrence(cur, match_sequence, match_kmer) ==
    \/ find(cur, match_kmer, find(cur, match_kmer, 0) + 1) # -1
    \/ find(match_sequence, match_kmer,
            find(match_sequence, match_kmer, 0) + 1) # -1

\* the columns of cur a match sequence laid at offset d covers
overlapColumns(cur, match_sequence, d) ==
    {c \in 0..(Len(cur) - 1) : c - d \in 0..(Len(match_sequence) - 1)}

\* lines 305-312: the overlaps Overlapper can return, as the offset of the
\* match on the columns of cur: extendMatch extends the seed at pos_0 and
\* pos_1, computeOverlap returns some overlap of the two sequences
overlapOffsets(cur, match_sequence, match_kmer) ==
    IF secondOccurrence(cur, match_sequence, match_kmer)
    THEN {d \in (1 - Len(match_sequence))..(Len(cur) - 1) :
             overlapColumns(cur, match_sequence, d) # {}}
    ELSE {find(cur, match_kmer, 0) - find(match_sequence, match_kmer, 0)}

\* SequenceOverlap::getOverlapLength
getOverlapLength(cur, match_sequence, d) ==
    Cardinality(overlapColumns(cur, match_sequence, d))

\* the number of columns of the overlap on which the sequences agree
identities(cur, match_sequence, d) ==
    Cardinality({c \in overlapColumns(cur, match_sequence, d) :
                    cur[c + 1] = match_sequence[c - d + 1]})

\* lines 313-314; minIdentity is kept in percent
passesThresholds(cur, match_sequence, d) ==
    /\ getOverlapLength(cur, match_sequence, d) >= m_params.minOverlap
    /\ 100 * identities(cur, match_sequence, d)
          >= m_params.minIdentity * getOverlapLength(cur, match_sequence, d)

\* lines 285-287: the sequence of a match
matchSequence(bwt, match) ==
    IF match.is_reverse
    THEN reverseComplement(extractString(bwt, match.index))
    ELSE extractString(bwt, match.index)

\* line 282: a match of the read with itself
isSelf(match, idx) == match.index = idx

\* operator< of KmerMatch (lines 162-168)
matchLess(a, b) ==
    IF a.index = b.index
    THEN (~a.is_reverse) /\ b.is_reverse
    ELSE a.index < b.index

\* lines 278-318: the rows of the multiple alignment, the base row first and
\* then the accepted matches in the order of the set; offset[m] is the
\* overlap Overlapper returned for match m
RECURSIVE refine(_, _, _, _, _, _)
refine(bwt, cur, idx, remaining, offset, rows) ==
    IF remaining = {} THEN rows
    ELSE LET match == CHOOSE x \in remaining :
                          \A y \in remaining \ {x} : matchLess(x, y)
             match_sequence == matchSequence(bwt, match)
             rest == remaining \ {match}
         IN  IF isSelf(match, idx)
             THEN refine(bwt, cur, idx, rest, offset, rows)
             ELSE IF passesThresholds(cur, match_sequence, offset[match])
             THEN refine(bwt, cur, idx, rest, offset,
                         Append(rows, [sequence |-> match_sequence,
                                       offset |-> offset[match]]))
             ELSE refine(bwt, cur, idx, rest, offset, rows)

\* the overlaps Overlapper can return for the matches of a round
OffsetChoices(bwt, cur, S) ==
    LET offsets(match) ==
            overlapOffsets(cur, matchSequence(bwt, match),
                           substr(cur, match.position, m_params.kmerLength))
    IN  {f \in [S -> UNION {offsets(match) : match \in S}] :
            \A match \in S : f[match] \in offsets(match)}

\* MultipleAlignment::calculateBaseConsensus(max_depth, min_support): the
\* bases the rows lay on column c of the base row, the base row included
columnBases(rows, c) ==
    [r \in 1..Len(rows) |->
        IF c - rows[r].offset \in 0..(Len(rows[r].sequence) - 1)
        THEN rows[r].sequence[c - rows[r].offset + 1]
        ELSE "-"]

support(rows, c, b) ==
    Cardinality({r \in 1..Len(rows) : columnBases(rows, c)[r] = b})

\* the bases the consensus can call on column c: a base of the largest
\* support when that support reaches min_support, the base of row 0 if not
columnCalls(rows, c, min_support) ==
    LET max_support ==
            CHOOSE n \in 0..Len(rows) :
                /\ \E j \in 1..DNA_ALPHABET_size :
                      support(rows, c, ALPHABET[j]) = n
                /\ \A j \in 1..DNA_ALPHABET_size :
                      support(rows, c, ALPHABET[j]) <= n
    IN  IF max_support >= min_support
        THEN {ALPHABET[j] : j \in {x \in 1..DNA_ALPHABET_size :
                                     support(rows, c, ALPHABET[x]) = max_support}}
        ELSE {rows[1].sequence[c + 1]}

calculateBaseConsensus(rows, max_depth, min_support) ==
    LET considered == SubSeq(rows, 1, Min(Len(rows), max_depth))
        n == Len(rows[1].sequence)
    IN  {s \in [1..n -> {ALPHABET[j] : j \in 1..DNA_ALPHABET_size}] :
            \A c \in 0..(n - 1) :
                s[c + 1] \in columnCalls(considered, c, min_support)}

\* line 191-197: the locals of overlapCorrectionNew
NewEntry ==
    /\ pc = "new_entry"
    /\ pc' = "new_loop"
    /\ result' = NewResult
    /\ current_sequence' = workItem.seq
    /\ consensus' = <<>>
    /\ round' = 0
    /\ prematchMap' = EmptyMap
    /\ iterated' = {}
    /\ matches' = {}
    /\ multiple_alignment' = <<>>
    /\ roundLog' = <<>>
    /\ UNCHANGED <<postVars, inputVars, indexVars, bwtCount, kmerVars, done,
                   rounds, overlapVars, kmerReturn, run, firstRun>>

\* lines 198-232: a round starts with the sweep over the k-mers
NewSweep ==
    /\ pc = "new_loop"
    /\ round < m_params.numOverlapRounds
    /\ pc' = "new_backtrack"
    /\ prematchMap' = sweep(pBWT, current_sequence)
    /\ iterated' = {}
    /\ matches' = {}
    /\ UNCHANGED <<postVars, inputVars, indexVars, result, bwtCount, kmerVars,
                   done, rounds, overlapVars, kmerReturn, run, firstRun,
                   current_sequence, consensus, round, multiple_alignment,
                   roundLog>>

\* lines 238-273: one iteration of the loop over prematchMap; the order in
\* which a hash map is iterated is not fixed by its keys
NewBacktrack ==
    /\ pc = "new_backtrack"
    /\ \E key \in DOMAIN prematchMap \ iterated :
          /\ iterated' = iterated \cup {key}
          /\ IF prematchMap[key].visited
             THEN UNCHANGED <<prematchMap, matches>>
             ELSE LET walk == backtrack(pBWT, pSSA,
                                  [prematchMap EXCEPT ![key].visited = TRUE],
                                  [position |-> prematchMap[key].position,
                                   index |-> key.index,
                                   is_reverse |-> key.is_reverse])
                  IN  /\ prematchMap' = walk.map
                      /\ matches' =
                            IF walk.found = {} THEN matches
                            ELSE insertMatch(matches,
                                     CHOOSE x \in walk.found : TRUE)
    /\ UNCHANGED <<postVars, inputVars, indexVars, pc, result, bwtCount,
                   kmerVars, done, rounds, overlapVars, kmerReturn, run,
                   firstRun, current_sequence, consensus, round,
                   multiple_alignment, roundLog>>

\* lines 275-330: the matches are refined to overlaps and the round ends
\* with the consensus of the multiple alignment
NewConsensus ==
    /\ pc = "new_backtrack"
    /\ iterated = DOMAIN prematchMap
    /\ \E offset \in OffsetChoices(pBWT, current_sequence, matches) :
          LET rows == refine(pBWT, current_sequence, workItem.idx, matches,
                             offset, <<[sequence |-> current_sequence,
                                        offset |-> 0]>>)
              last_round == round = m_params.numOverlapRounds - 1
          IN  /\ multiple_alignment' = rows
              /\ roundLog' = Append(roundLog,
                                 [base |-> current_sequence,
                                  matches |-> matches, rows |-> rows])
              /\ IF last_round
                 THEN /\ consensus' \in calculateBaseConsensus(rows, 10000, 3)
                      /\ UNCHANGED current_sequence
                 ELSE /\ current_sequence'
                            \in calculateBaseConsensus(rows, 10000, 0)
                      /\ UNCHANGED consensus
    /\ round' = round + 1
    /\ pc' = "new_loop"
    /\ UNCHANGED <<postVars, inputVars, indexVars, result, bwtCount, kmerVars,
                   done, rounds, overlapVars, kmerReturn, run, firstRun,
                   prematchMap, iterated, matches>>

\* lines 333-343: the result of overlapCorrectionNew
newResult(res, cons, original) ==
    IF cons # <<>>
    THEN [res EXCEPT !.correctSequence = cons, !.overlapQC = TRUE]
    ELSE [res EXCEPT !.correctSequence = original, !.overlapQC = FALSE]

\* lines 198 and 333-344: the rounds are over
NewFinish ==
    /\ pc = "new_loop"
    /\ ~(round < m_params.numOverlapRounds)
    /\ result' = newResult(result, consensus, workItem.seq)
    /\ pc' = "return"
    /\ UNCHANGED <<postVars, inputVars, indexVars, bwtCount, kmerVars, done,
                   rounds, overlapVars, kmerReturn, run, firstRun, newVars>>

(***************************************************************************)
(* ErrorCorrectProcess::correct (the dispatcher)                           *)
(***************************************************************************)
\* lines 42-60: the function the switch calls first
firstCorrector(algorithm) ==
    CASE algorithm = "ECA_HYBRID" -> "kmer_entry"
      [] algorithm = "ECA_KMER" -> "kmer_entry"
      [] algorithm = "ECA_OVERLAP" -> "new_entry"

\* mutant of hybridFallsBack: the verdict of the k-mer corrector is not read
hybridAlwaysFallsBack(algorithm, res) == algorithm = "ECA_HYBRID"

\* lines 46-48: does the hybrid algorithm fall back to overlapCorrection
hybridFallsBack(algorithm, res) == algorithm = "ECA_HYBRID" /\ ~res.kmerQC

\* lines 42-60: the switch on the algorithm
Correct ==
    /\ pc = "start"
    /\ pc' = firstCorrector(m_params.algorithm)
    /\ UNCHANGED <<postVars, indexVars, newVars, inputVars, result, bwtCount,
                   kmerVars, done, rounds, overlapVars, kmerReturn, run,
                   firstRun>>

\* lines 46-55: kmerCorrection has returned to correct.  When correct goes
\* on to overlapCorrection the locals of kmerCorrection are gone, and the
\* counts observed for this read are not carried on: the legacy corrector
\* makes no count query.
CorrectAfterKmer ==
    /\ pc = "kmer_return"
    /\ kmerReturn' = [returned |-> TRUE, result |-> result,
                      partial |-> readSequence # workItem.seq]
    /\ IF hybridFallsBack(m_params.algorithm, result)
       THEN /\ pc' = "ovl_entry"
            /\ bwtCount' = EmptyMap
            /\ readSequence' = <<>>
            /\ kmerCache' = EmptyMap
            /\ countVector' = <<>>
            /\ solidVector' = <<>>
            /\ allSolid' = FALSE
            /\ done' = FALSE
            /\ rounds' = 0
            /\ i' = 0
            /\ corrected' = FALSE
            /\ lastAttempt' = NoAttempt
            /\ attempted' = {}
            /\ substitutions' = <<>>
       ELSE /\ pc' = "return"
            /\ UNCHANGED <<bwtCount, kmerVars, done, rounds>>
    /\ UNCHANGED <<postVars, indexVars, newVars, inputVars, result,
                   overlapVars, run, firstRun>>

\* the corrected sequence of a k-mer correction is corrected once more, with
\* the qualities of the read and the same index
Recorrect ==
    /\ pc = "return"
    /\ m_params.algorithm = "ECA_KMER"
    /\ run = 1
    /\ run' = 2
    /\ firstRun' = [seq |-> workItem.seq, result |-> result]
    /\ kmerReturn' = NoReturn
    /\ workItem' = [workItem EXCEPT !.seq = result.correctSequence]
    /\ result' = NewResult
    /\ pc' = "start"
    /\ UNCHANGED <<postVars, indexVars, newVars, m_params, bwtCount, kmerVars,
                   done, rounds, overlapVars>>

(***************************************************************************)
(* ErrorCorrectPostProcess                                                 *)
(***************************************************************************)
\* mutant of classify: overlapQC is tested before kmerQC
classifyOverlapFirst(res) ==
    IF res.overlapQC THEN "overlapQCPassed"
    ELSE IF res.kmerQC THEN "kmerQCPassed"
    ELSE "qcFail"

\* lines 591-603: the counter a result is counted in
classify(res) ==
    IF res.kmerQC THEN "kmerQCPassed"
    ELSE IF res.overlapQC THEN "overlapQCPassed"
    ELSE "qcFail"

\* lines 590-603: readQCPass
readQCPass(res) == classify(res) # "qcFail"

\* line 616: is the record written to the corrected writer
writesToCorrected(qcPass, discardWriter) == qcPass \/ discardWriter.isNull

\* lines 633-667: the number of positions at which the sequences differ
RECURSIVE countErrors(_, _, _)
countErrors(originalSeq, correctedSeq, p) ==
    IF p > Len(originalSeq) THEN 0
    ELSE (IF originalSeq[p] # correctedSeq[p] THEN 1 ELSE 0)
         + countErrors(originalSeq, correctedSeq, p + 1)

\* lines 586-626: process(item, result)
ProcessResult(item, res) ==
    LET qcPass == readQCPass(res)
        record == [item EXCEPT !.seq = res.correctSequence]
    IN  /\ m_kmerQCPassed' =
              m_kmerQCPassed + (IF classify(res) = "kmerQCPassed" THEN 1 ELSE 0)
        /\ m_overlapQCPassed' =
              m_overlapQCPassed + (IF classify(res) = "overlapQCPassed" THEN 1 ELSE 0)
        /\ m_qcFail' = m_qcFail + (IF classify(res) = "qcFail" THEN 1 ELSE 0)
        /\ IF m_bCollectMetrics /\ qcPass
           THEN /\ m_totalBases' = m_totalBases + Len(item.seq)
                /\ m_totalErrors' =
                      m_totalErrors + countErrors(item.seq, res.correctSequence, 1)
           ELSE UNCHANGED <<m_totalBases, m_totalErrors>>
        /\ IF writesToCorrected(qcPass, m_pDiscardWriter)
           THEN /\ m_pCorrectedWriter' = Append(m_pCorrectedWriter, record)
                /\ m_readsKept' = m_readsKept + 1
                /\ UNCHANGED <<m_pDiscardWriter, m_readsDiscarded>>
           ELSE /\ m_pDiscardWriter' =
                      [m_pDiscardWriter EXCEPT !.records = Append(@, record)]
                /\ m_readsDiscarded' = m_readsDiscarded + 1
                /\ UNCHANGED <<m_pCorrectedWriter, m_readsKept>>

\* the reads and the results handed to the post-processor
PostItems ==
    {w \in WorkItems : w.seq \in {<<"A", "A">>, <<"A", "C">>}
                       /\ w.qual = <<30, 30>>}

PostResults(item) ==
    {[correctSequence |-> c, kmerQC |-> k, overlapQC |-> o,
      num_prefix_overlaps |-> 0, num_suffix_overlaps |-> 0] :
        c \in {item.seq, SetBase(item.seq, 1, "G")},
        k \in BOOLEAN, o \in BOOLEAN}

\* one call of process, with the item and the result it is called with
Process ==
    /\ pc = "post"
    /\ Len(processed) < MaxReads
    /\ \E item \in PostItems : \E res \in PostResults(item) :
        /\ workItem' = item
        /\ result' = res
        /\ processed' = Append(processed, res)
        /\ ProcessResult(item, res)
    /\ UNCHANGED <<m_params, indexVars, newVars, pc, bwtCount, kmerVars, done,
                   rounds, overlapVars, kmerReturn, run, firstRun,
                   m_bCollectMetrics>>

(***************************************************************************)
(* The specification                                                       *)
(***************************************************************************)
\* no index is configured and overlapCorrectionNew has not been entered
NewIdle ==
    /\ pBWT = <<>>
    /\ pSSA = <<>>
    /\ current_sequence = <<>>
    /\ consensus = <<>>
    /\ round = 0
    /\ prematchMap = EmptyMap
    /\ iterated = {}
    /\ matches = {}
    /\ multiple_alignment = <<>>
    /\ roundLog = <<>>

Init ==
    /\ m_params \in Params
    /\ IF m_params.algorithm = "ECA_OVERLAP"
       THEN /\ workItem \in NewWorkItems
            /\ \E index \in Indexes :
                  /\ pBWT = index.pBWT
                  /\ pSSA = index.pSSA
       ELSE /\ workItem \in WorkItems
            /\ pBWT = <<>>
            /\ pSSA = <<>>
    /\ current_sequence = <<>>
    /\ consensus = <<>>
    /\ round = 0
    /\ prematchMap = EmptyMap
    /\ iterated = {}
    /\ matches = {}
    /\ multiple_alignment = <<>>
    /\ roundLog = <<>>
    /\ pc = "start"
    /\ result = NewResult
    /\ bwtCount = EmptyMap
    /\ readSequence = <<>>
    /\ kmerCache = EmptyMap
    /\ countVector = <<>>
    /\ solidVector = <<>>
    /\ allSolid = FALSE
    /\ done = FALSE
    /\ rounds = 0
    /\ i = 0
    /\ corrected = FALSE
    /\ lastAttempt = NoAttempt
    /\ currRead = <<>>
    /\ bQCPass = FALSE
    /\ sumOverlaps = 0
    /\ overlapLog = <<>>
    /\ attempted = {}
    /\ substitutions = <<>>
    /\ kmerReturn = NoReturn
    /\ run = 1
    /\ firstRun = NoRun
    /\ m_pCorrectedWriter = <<>>
    /\ m_pDiscardWriter = NoWriter
    /\ m_bCollectMetrics = FALSE
    /\ m_totalBases = 0
    /\ m_totalErrors = 0
    /\ m_readsKept = 0
    /\ m_readsDiscarded = 0
    /\ m_kmerQCPassed = 0
    /\ m_overlapQCPassed = 0
    /\ m_qcFail = 0
    /\ processed = <<>>


Next ==
    \/ Correct
    \/ KmerEntry
    \/ KmerRound
    \/ KmerAttemptLeft
    \/ KmerAttemptRight
    \/ KmerFinish
    \/ CorrectAfterKmer
    \/ OverlapEntry
    \/ OverlapRound
    \/ OverlapFinish
    \/ NewEntry
    \/ NewSweep
    \/ NewBacktrack
    \/ NewConsensus
    \/ NewFinish

\* correct() on one read, for every algorithm
Spec == Init /\ [][Next]_vars

\* k-mer correction of a read, and of the sequence it returns
InitKmer == Init /\ m_params.algorithm = "ECA_KMER"

NextKmer ==
    \/ Correct
    \/ KmerEntry
    \/ KmerRound
    \/ KmerAttemptLeft
    \/ KmerAttemptRight
    \/ KmerFinish
    \/ CorrectAfterKmer
    \/ Recorrect

SpecKmer == InitKmer /\ [][NextKmer]_vars

\* the legacy overlap corrector alone, from the state in which correct()
\* calls it: the hybrid algorithm, after a k-mer correction that failed QC
InitLegacy ==
    /\ m_params \in {p \in Params : p.algorithm = "ECA_HYBRID"}
    /\ workItem \in WorkItems
    /\ NewIdle
    /\ pc = "ovl_entry"
    /\ result = kmerResult(FALSE, workItem.seq, workItem.seq)
    /\ bwtCount = EmptyMap
    /\ readSequence = <<>>
    /\ kmerCache = EmptyMap
    /\ countVector = <<>>
    /\ solidVector = <<>>
    /\ allSolid = FALSE
    /\ done = FALSE
    /\ rounds = 0
    /\ i = 0
    /\ corrected = FALSE
    /\ lastAttempt = NoAttempt
    /\ currRead = <<>>
    /\ bQCPass = FALSE
    /\ sumOverlaps = 0
    /\ overlapLog = <<>>
    /\ attempted = {}
    /\ substitutions = <<>>
    /\ kmerReturn = [returned |-> TRUE, partial |-> FALSE,
                     result |-> kmerResult(FALSE, workItem.seq, workItem.seq)]
    /\ run = 1
    /\ firstRun = NoRun
    /\ m_pCorrectedWriter = <<>>
    /\ m_pDiscardWriter = NoWriter
    /\ m_bCollectMetrics = FALSE
    /\ m_totalBases = 0
    /\ m_totalErrors = 0
    /\ m_readsKept = 0
    /\ m_readsDiscarded = 0
    /\ m_kmerQCPassed = 0
    /\ m_overlapQCPassed = 0
    /\ m_qcFail = 0
    /\ processed = <<>>

NextLegacy ==
    \/ OverlapEntry
    \/ OverlapRound
    \/ OverlapFinish

SpecLegacy == InitLegacy /\ [][NextLegacy]_vars

\* the index-driven overlap corrector: correct() with ECA_OVERLAP
InitNew == Init /\ m_params.algorithm = "ECA_OVERLAP"

NextNew ==
    \/ Correct
    \/ NewEntry
    \/ NewSweep
    \/ NewBacktrack
    \/ NewConsensus
    \/ NewFinish

SpecNew == InitNew /\ [][NextNew]_vars

\* the post-processor, from its construction (lines 549-561), fed with reads
\* and their results
InitPost ==
    /\ m_params \in {p \in Params : p.algorithm = "ECA_HYBRID"
                                     /\ p.numKmerRounds = 0
                                     /\ p.numOverlapRounds = 0}
    /\ workItem \in {w \in PostItems : w.seq = <<"A", "A">>}
    /\ NewIdle
    /\ pc = "post"
    /\ result = NewResult
    /\ bwtCount = EmptyMap
    /\ readSequence = <<>>
    /\ kmerCache = EmptyMap
    /\ countVector = <<>>
    /\ solidVector = <<>>
    /\ allSolid = FALSE
    /\ done = FALSE
    /\ rounds = 0
    /\ i = 0
    /\ corrected = FALSE
    /\ lastAttempt = NoAttempt
    /\ currRead = <<>>
    /\ bQCPass = FALSE
    /\ sumOverlaps = 0
    /\ overlapLog = <<>>
    /\ attempted = {}
    /\ substitutions = <<>>
    /\ kmerReturn = NoReturn
    /\ run = 1
    /\ firstRun = NoRun
    /\ m_pCorrectedWriter = <<>>
    /\ m_pDiscardWriter \in {NoWriter, NewWriter}
    /\ m_bCollectMetrics \in BOOLEAN
    /\ m_totalBases = 0
    /\ m_totalErrors = 0
    /\ m_readsKept = 0
    /\ m_readsDiscarded = 0
    /\ m_kmerQCPassed = 0
    /\ m_overlapQCPassed = 0
    /\ m_qcFail = 0
    /\ processed = <<>>

NextPost == Process

SpecPost == InitPost /\ [][NextPost]_vars

(***************************************************************************)
(* The claims                                                              *)
(***************************************************************************)
\* correct() has returned `result`
Returned == pc = "return"

QCFail(res) == ~res.kmerQC /\ ~res.overlapQC

\* C1 (as stated): for every algorithm, a result with kmer_qc = false and
\* overlap_qc = false carries the original read sequence.
C1_FailedKeepsOriginal ==
    Returned /\ QCFail(result) => result.correctSequence = workItem.seq

\* overlapCorrection has returned after its depth filter fired
DepthFilterFired == pc = "return" /\ depthFiltered(sumOverlaps)

\* C2: when the summed block size exceeds the depth filter, the result of
\* legacy overlap correction has overlap_qc = true and both overlap counters
\* equal to the sum.
C2_DepthFilterPasses ==
    DepthFilterFired =>
        /\ result.overlapQC
        /\ result.num_prefix_overlaps = sumOverlaps
        /\ result.num_suffix_overlaps = sumOverlaps

\* C3 (as stated): when the depth filter fires, in whatever round, the
\* sequence returned is the original read sequence.
C3_DepthFilterReturnsOriginal ==
    DepthFilterFired => result.correctSequence = workItem.seq

\* C3 (amended): when the depth filter fires, the sequence returned is the
\* one the round started with, the sequence handed to the overlapper in that
\* round: the original read in the first round, the consensus of the round
\* before in a later one.
C3_DepthFilterReturnsRoundInput ==
    DepthFilterFired =>
        /\ result.correctSequence = overlapLog[Len(overlapLog)]
        /\ Len(overlapLog) = rounds + 1
        /\ rounds = 0 => result.correctSequence = workItem.seq

\* C3 witness: the filter fired in a later round, on a changed sequence
C3_Witness ==
    DepthFilterFired /\ rounds >= 1 /\ result.correctSequence # workItem.seq

\* the alternatives of the last attempt whose substituted k-mer count
\* reaches min_count
MeetingAlternatives ==
    {j \in 1..DNA_ALPHABET_size :
        /\ ALPHABET[j] # lastAttempt.before[lastAttempt.i + 1]
        /\ bwtCount[altKmer(lastAttempt.before, lastAttempt.k_idx,
                            lastAttempt.i - lastAttempt.k_idx, ALPHABET[j])]
               >= lastAttempt.minCount}

\* C4: an attempt in which two distinct alternatives reach min_count makes
\* no correction: it returns false and leaves the working sequence as it was.
C4_AmbiguityNeverResolved ==
    lastAttempt.called /\ Cardinality(MeetingAlternatives) >= 2 =>
        ~lastAttempt.ret /\ readSequence = lastAttempt.before

\* the positions of correct() in which kmerCorrection has not returned yet
BeforeKmerReturn ==
    pc \in {"start", "kmer_entry", "kmer_loop", "kmer_left", "kmer_right",
            "kmer_finish", "kmer_return"}

\* C5: under HYBRID the overlapper is not called before kmerCorrection has
\* returned; it is called if and only if the k-mer result has kmer_qc =
\* false, the first call is on the original read, and correct() returns
\* the k-mer result when kmer_qc = true.
C5_HybridDispatch ==
    m_params.algorithm = "ECA_HYBRID" =>
        /\ BeforeKmerReturn => overlapLog = <<>> /\ ~kmerReturn.returned
        /\ overlapLog # <<>> =>
              /\ kmerReturn.returned
              /\ ~kmerReturn.result.kmerQC
              /\ overlapLog[1] = workItem.seq
        /\ Returned =>
              /\ kmerReturn.returned
              /\ kmerReturn.result.kmerQC =>
                    overlapLog = <<>> /\ result = kmerReturn.result
              /\ ~kmerReturn.result.kmerQC =>
                    /\ overlapLog # <<>>
                    /\ ~result.kmerQC
                    /\ result.overlapQC = bQCPass

\* C5 witness: the k-mer corrector changed its working copy, failed QC, and
\* the legacy corrector ran on the original read and returned
C5_Witness ==
    /\ m_params.algorithm = "ECA_HYBRID"
    /\ Returned
    /\ kmerReturn.partial
    /\ Len(overlapLog) >= 2

\* the read is indexed under its idx, and in every round the seeds the
\* backtrack resolved are the read itself and nothing else
OnlySelfSeeds ==
    /\ workItem.idx < Len(pSSA)
    /\ extractString(pBWT, workItem.idx) = workItem.seq
    /\ roundLog # <<>>
    /\ \A r \in DOMAIN roundLog :
          /\ roundLog[r].matches # {}
          /\ \A match \in roundLog[r].matches : isSelf(match, workItem.idx)

C7_Idempotent ==
    Returned /\ run = 2 =>
        /\ result.correctSequence = firstRun.result.correctSequence
        /\ firstRun.result.kmerQC => result.kmerQC

\* C7 witness: the second correction of a read the first one changed
C7_Witness ==
    /\ Returned /\ run = 2
    /\ firstRun.result.kmerQC
    /\ firstRun.result.correctSequence # firstRun.seq

\* the bases of the round that are not solid
NonSolid == {j \in DOMAIN solidVector : solidVector[j] # 1}

\* the leftmost base of the round that is not solid
Leftmost == nextNonSolid(solidVector, 0, Len(readSequence))

C10_AtMostNumRounds ==
    pc \in {"ovl_loop", "ovl_finish", "return"} =>
        rounds <= m_params.numOverlapRounds

\* the number of results handed to process that are counted in counter c
RECURSIVE CountClass(_, _)
CountClass(log, c) ==
    IF log = <<>> THEN 0
    ELSE (IF (IF log[1].kmerQC THEN "kmerQCPassed"
              ELSE IF log[1].overlapQC THEN "overlapQCPassed"
              ELSE "qcFail") = c THEN 1 ELSE 0)
         + CountClass(Tail(log), c)

\* the sequences of the results, in order, that failed both QC checks (fail =
\* TRUE) or passed one (fail = FALSE)
RECURSIVE SeqsOf(_, _)
SeqsOf(log, fail) ==
    IF log = <<>> THEN <<>>
    ELSE (IF QCFail(log[1]) = fail THEN <<log[1].correctSequence>> ELSE <<>>)
         \o SeqsOf(Tail(log), fail)

AllSeqsOf(log) == [k \in 1..Len(log) |-> log[k].correctSequence]

Written(writer) == [k \in 1..Len(writer) |-> writer[k].seq]

\* C8: after any sequence of process() calls every read is counted in
\* exactly one of kmer_pass, overlap_pass, qc_fail (kmer_qc before
\* overlap_qc), the three counters and reads_kept + reads_discarded both add
\* up to the number of reads, and a read is written to the discard sink iff
\* both flags are false and a discard sink is provided, else to the
\* corrected sink.
C8_Classification ==
    /\ m_kmerQCPassed = CountClass(processed, "kmerQCPassed")
    /\ m_overlapQCPassed = CountClass(processed, "overlapQCPassed")
    /\ m_qcFail = CountClass(processed, "qcFail")
    /\ m_kmerQCPassed + m_overlapQCPassed + m_qcFail = Len(processed)
    /\ m_readsKept + m_readsDiscarded = Len(processed)
    /\ m_readsKept = Len(m_pCorrectedWriter)
    /\ IF m_pDiscardWriter.isNull
       THEN /\ Written(m_pCorrectedWriter) = AllSeqsOf(processed)
            /\ m_readsDiscarded = 0
       ELSE /\ Written(m_pDiscardWriter.records) = SeqsOf(processed, TRUE)
            /\ Written(m_pCorrectedWriter) = SeqsOf(processed, FALSE)
            /\ m_readsDiscarded = Len(m_pDiscardWriter.records)

\* C8 witness: with a discard sink, a read that failed both checks was
\* discarded, and a read with both flags true was counted as a k-mer pass
C8_Witness ==
    /\ ~m_pDiscardWriter.isNull
    /\ m_readsDiscarded >= 1
    /\ m_readsKept >= 1
    /\ \E k \in 1..Len(processed) :
          processed[k].kmerQC /\ processed[k].overlapQC
    /\ m_overlapQCPassed >= 1

\* the positions (from 0) at which two sequences of one length differ
Differences(s, t) == {p \in 0..(Len(s) - 1) : s[p + 1] # t[p + 1]}

\* kmerCorrection left its loop at line 452 with rounds++ > maxAttempts
RoundsExhausted == rounds = m_params.numKmerRounds + 2

\* the corrections kmerCorrection has made: at most num_kmer_rounds + 1, no
\* two in one round, each of one base; and a correction that ran out of
\* rounds returns kmer_qc = false
C11_Bounded ==
    /\ Len(substitutions) <= m_params.numKmerRounds + 1
    /\ \A a, b \in DOMAIN substitutions :
          a # b => substitutions[a].round # substitutions[b].round
    /\ \A a \in DOMAIN substitutions :
          /\ Len(substitutions[a].after) = Len(substitutions[a].before)
          /\ Differences(substitutions[a].before, substitutions[a].after)
                = {substitutions[a].i}
    /\ pc = "kmer_return" /\ RoundsExhausted => ~allSolid /\ ~result.kmerQC

\* kmerCorrection has been entered and has not returned
KmerRunning ==
    pc \in {"kmer_entry", "kmer_loop", "kmer_left", "kmer_right",
            "kmer_finish"}

\* a bound on the number of steps kmerCorrection has left: the rounds that
\* remain, each as long as a scan of the read with two attempts a base
KmerVariant ==
    LET n == Len(workItem.seq)
        width == 2 * n + 2
        base == (m_params.numKmerRounds + 2 - rounds) * width
    IN  CASE pc = "kmer_entry" -> (m_params.numKmerRounds + 2) * width + 1
          [] pc = "kmer_loop" -> base
          [] pc = "kmer_left" -> base + 2 * (n - i) + 1
          [] pc = "kmer_right" -> base + 2 * (n - i)
          [] pc = "kmer_finish" -> 1
          [] OTHER -> 0

\* the statement kmerCorrection is at can be executed: the loop is entered
\* only while done is false, an attempt is made for a base of the read with a
\* k-mer that has a count, and the index can answer the queries
KmerCanStep ==
    LET n == Len(readSequence)
    IN  /\ Total(bwtCount) <= IndexSize
        /\ pc = "kmer_loop" => ~done /\ n >= m_params.kmerLength
        /\ pc = "kmer_left" =>
              i \in 0..(n - 1) /\ leftKmerIndex(i) \in DOMAIN countVector
        /\ pc = "kmer_right" =>
              i \in 0..(n - 1) /\ rightKmerIndex(i, n) \in DOMAIN countVector

\* C11: k-mer correction always terminates (until it returns it can take a
\* step, and every step leaves fewer steps to take) and applies at most
\* num_kmer_rounds + 1 single-base substitutions to the working sequence, at
\* most one per round; when the rounds are exhausted and the sequence is not
\* all-solid the result has kmer_qc = false.
C11_TerminatesBounded ==
    /\ []C11_Bounded
    /\ [](KmerRunning => KmerVariant >= 1 /\ KmerCanStep)
    /\ [][KmerRunning => KmerVariant' < KmerVariant]_vars

\* C11 witness: a correction with num_kmer_rounds >= 1 made a substitution
\* in every round it had, ran out of rounds and returned
C11_Witness ==
    /\ pc = "kmer_return"
    /\ m_params.numKmerRounds >= 1
    /\ RoundsExhausted
    /\ Len(substitutions) = m_params.numKmerRounds + 1

\* the k-mer of the returned sequence that starts at x
ReturnedKmer(x) == substr(result.correctSequence, x, m_params.kmerLength)

\* the starts of the k-mers of the returned sequence
ReturnedKmerStarts == 0..(Len(result.correctSequence) - m_params.kmerLength)

\* every count the per-read cache holds is the count the FM-index gives
CacheIsIndex ==
    \A k \in DOMAIN kmerCache :
        k \in DOMAIN bwtCount /\ kmerCache[k] = bwtCount[k]

seedOf(match) == [index |-> match.index, is_reverse |-> match.is_reverse]

\* the seed the entry key of prematchMap resolves to when it is backtracked
\* all the way to its "$"
fullSeed(key) ==
    seedOf(backtrackToSentinel(pBWT, pSSA,
               [position |-> prematchMap[key].position,
                index |-> key.index, is_reverse |-> key.is_reverse]))

\* the loop over prematchMap (lines 238-273) has ended
BacktrackComplete == pc = "new_backtrack" /\ iterated = DOMAIN prematchMap

\* C13: the visited flags do not change the seeds: during the backtrack every
\* match is the seed of an entry of prematchMap and the seed of every visited
\* entry is among the matches; after the backtrack the seeds of the matches
\* are the seeds that backtracking every entry to its "$" gives, and every
\* entry of prematchMap is visited.
C13_PruningKeepsSeeds ==
    /\ pc = "new_backtrack" =>
          /\ \A m \in matches :
                \E key \in DOMAIN prematchMap : seedOf(m) = fullSeed(key)
          /\ \A key \in DOMAIN prematchMap :
                prematchMap[key].visited =>
                    \E m \in matches : seedOf(m) = fullSeed(key)
          /\ \A key \in iterated : prematchMap[key].visited
    /\ BacktrackComplete =>
          /\ {seedOf(m) : m \in matches}
                = {fullSeed(key) : key \in DOMAIN prematchMap}
          /\ \A key \in DOMAIN prematchMap : prematchMap[key].visited

\* C13 witness: the backtrack has ended for a prematchMap in which the walk
\* from one entry reaches another entry, on both strands, and the entries
\* are more than the seeds
C13_Witness ==
    /\ BacktrackComplete
    /\ \E key \in DOMAIN prematchMap :
          /\ getChar(pBWT, key.index) # "$"
          /\ [index |-> LF(pBWT, key.index), is_reverse |-> key.is_reverse]
                \in DOMAIN prematchMap
    /\ \E m \in matches : m.is_reverse
    /\ \E m \in matches : ~m.is_reverse
    /\ Cardinality(matches) < Cardinality(DOMAIN prematchMap)

====
